---- MODULE Spec2Model ----
(***************************************************************************)
(* Model of guides/ipynb/keras_cv/custom_image_augmentations.ipynb: the    *)
(* RandomBlueTint layers built on keras_cv's BaseImageAugmentationLayer.   *)
(*                                                                         *)
(* Numbers.  Tensor values are floats in the notebook.  They are modelled  *)
(* as exact rationals <<numerator, denominator>> in lowest terms with a    *)
(* positive denominator, so every arithmetic step of the code (subtract,   *)
(* divide, multiply, add, clip) is computed, and only float rounding is    *)
(* abstracted away.                                                        *)
(*                                                                         *)
(* Tensors.  An image (H, W, C) is a sequence of pixels, a pixel is a      *)
(* sequence of C channel values, the last one being blue.  A batch         *)
(* (B, H, W, C) is a sequence of images.                                   *)
(***************************************************************************)
EXTENDS Integers, Sequences, FiniteSets, TLC

VARIABLES
    pc,               \* "new": no layer yet, "built": layer constructed, "called": layer(inputs) returned
    layer,            \* the layer object: its class and the attributes __init__ sets
    factor_arg,       \* the factor argument the layer was constructed with
    inputs,           \* the argument of the last layer(inputs) call
    transformations,  \* what get_random_transformation returned for each sample of the last call
    result            \* what the last layer(inputs) call returned

vars == <<pc, layer, factor_arg, inputs, transformations, result>>

\* Python's None, for each kind of value that may be absent
NoRange  == <<>>     \* the class has no value_range attribute
NoLabels == <<>>     \* the inputs carry no "labels" entry
NoLabel  == -1       \* the label handed to _augment when there are no labels
NoBoxes  == <<>>     \* the inputs carry no "bounding_boxes" entry
NoLayer  == [value_range |-> NoRange, factor |-> <<>>, auto_vectorize |-> TRUE]

----------------------------------------------------------------------------
(* Exact rational arithmetic standing for the float arithmetic of the code *)

Abs(x) == IF x < 0 THEN -x ELSE x

RECURSIVE GCD(_, _)
GCD(a, b) == IF b = 0 THEN a ELSE GCD(b, a % b)

Rat(n, d) ==
    LET s == IF d < 0 THEN -1 ELSE 1
        g == GCD(Abs(n), Abs(d))
    IN  <<(s * n) \div g, (s * d) \div g>>

R(n) == <<n, 1>>

RAdd(a, b) == Rat(a[1] * b[2] + b[1] * a[2], a[2] * b[2])
RSub(a, b) == Rat(a[1] * b[2] - b[1] * a[2], a[2] * b[2])
RMul(a, b) == Rat(a[1] * b[1], a[2] * b[2])
RDiv(a, b) == Rat(a[1] * b[2], a[2] * b[1])
RLe(a, b) == a[1] * b[2] <= b[1] * a[2]
RLt(a, b) == a[1] * b[2] < b[1] * a[2]

----------------------------------------------------------------------------
(* Bounds of the model *)

\* largest batch size B of a batched (B, H, W, C) input
MaxBatch == 2

\* the value ranges the guide names: [0, 255], [0, 1] and [-1, 1]
ValueRanges == { <<R(0), R(255)>>, <<R(0), R(1)>>, <<R(-1), R(1)>> }

\* factor arguments: a single float is <<f>>, a tuple of two floats is <<lo, hi>>
FactorArgs ==
    { <<R(0)>>, <<Rat(1, 2)>>,
      <<R(1), R(1)>>, <<Rat(1, 10), Rat(1, 10)>>, <<Rat(3, 5), Rat(3, 5)>>,
      <<Rat(20, 51), Rat(3, 5)>> }

\* class labels fed in the "labels" entry of a dictionary input
LabelValues == {0, 1}

\* bounding boxes fed in the "bounding_boxes" entry of a dictionary input, as
\* <<x, y, width, height>> in pixels: the boxes of one image with one box and
\* the boxes of one image with two; sample i of a batch gets them in turn
BoxValues ==
    << << <<0, 0, 1, 1>> >>,
       << <<0, 0, 2, 1>>, <<1, 0, 1, 1>> >> >>

BoxesOfBatch(n) == [i \in 1..n |-> BoxValues[((i - 1) % Len(BoxValues)) + 1]]

\* Images as grid indices k: a channel value is lo + k * (hi - lo) / 2 of the
\* range the image is expressed in, so k in 0..2 is inside the range and
\* k = -1, k = 3 are below and above it.  Two pixels of three channels each.
GridImages ==
    { << <<0, 1, 0>>, <<2, 0, 1>> >>,
      << <<1, 2, 2>>, <<0, 0, 1>> >>,
      << <<0, 1, 3>>, <<1, 0, -1>> >>,
      << <<3, -1, 1>>, <<0, 1, 0>> >> }

\* a function over 1..n as the sequence of its values: tensors are held by value
Tensor(f) == f \o <<>>

GridValue(range, k) ==
    RAdd(range[1], RMul(Rat(k, 2), RSub(range[2], range[1])))

ImageOn(range, g) ==
    Tensor([p \in 1..Len(g) |->
        Tensor([c \in 1..Len(g[p]) |-> GridValue(range, g[p][c])])])

\* every value of the image lies within the range
InRange(image, range) ==
    \A p \in 1..Len(image) : \A c \in 1..Len(image[p]) :
        RLe(range[1], image[p][c]) /\ RLe(image[p][c], range[2])

----------------------------------------------------------------------------
(* Library operations the notebook calls *)

\* tf.unstack(image, axis=-1): the list of channel planes
unstack(image) ==
    Tensor([c \in 1..Len(image[1]) |->
        Tensor([p \in 1..Len(image) |-> image[p][c]])])

\* tf.stack(planes, axis=-1): back to (H, W, C)
stack(planes) ==
    Tensor([p \in 1..Len(planes[1]) |->
        Tensor([c \in 1..Len(planes) |-> planes[c][p]])])

\* tf.clip_by_value(plane, lo, hi), elementwise
clip_by_value(plane, lo, hi) ==
    Tensor([p \in 1..Len(plane) |->
        IF RLt(plane[p], lo) THEN lo
        ELSE IF RLt(hi, plane[p]) THEN hi
        ELSE plane[p]])

\* plane + scalar, elementwise (broadcast)
plus(plane, scalar) == Tensor([p \in 1..Len(plane) |-> RAdd(plane[p], scalar)])

\* keras_cv.utils.transform_value_range(images, original_range, target_range):
\* returns the images untouched when the ranges are equal, else maps them to
\* [0, 1] and then to the target range
transform_value_range(images, original_range, target_range) ==
    IF original_range[1] = target_range[1] /\ original_range[2] = target_range[2]
    THEN images
    ELSE Tensor([p \in 1..Len(images) |-> Tensor([c \in 1..Len(images[p]) |->
            RAdd(RMul(RDiv(RSub(images[p][c], original_range[1]),
                           RSub(original_range[2], original_range[1])),
                      RSub(target_range[2], target_range[1])),
                 target_range[1])])])

\* keras_cv.utils.parse_factor(factor): a single float f samples from (0, f),
\* a tuple from (lo, hi); the sampler is represented by its two bounds
parse_factor(factor) ==
    IF Len(factor) = 1 THEN <<R(0), factor[1]>> ELSE factor

\* the values self.factor() can return: the constant when both bounds are
\* equal, otherwise a uniform draw from [lo, hi), of which the lower bound and
\* the midpoint are taken
FactorSamples(sampler) ==
    IF sampler[1] = sampler[2] THEN {sampler[1]}
    ELSE {sampler[1], RDiv(RAdd(sampler[1], sampler[2]), R(2))}

----------------------------------------------------------------------------
(* The RandomBlueTint classes *)

\* get_random_transformation returning the factor itself, the scaling left out
get_random_transformation_unscaled(self, sample) == sample

\* RandomBlueTint.get_random_transformation: self.factor() * 255, where
\* sample is the value self.factor() returned
get_random_transformation(self, sample) == RMul(sample, R(255))

\* augment_image with the fixed shift of the first version of the class
augment_image_plain_fixed(self, image, transformation) ==
    LET planes == unstack(image)
        others == SubSeq(planes, 1, Len(planes) - 1)
        blue   == clip_by_value(plus(planes[Len(planes)], R(100)), R(0), R(255))
    IN  stack(Append(others, blue))

\* RandomBlueTint.augment_image of the class without value_range
augment_image_plain(self, image, transformation) ==
    LET planes == unstack(image)
        others == SubSeq(planes, 1, Len(planes) - 1)
        blue   == clip_by_value(plus(planes[Len(planes)], transformation), R(0), R(255))
    IN  stack(Append(others, blue))

\* augment_image with the clip left out
augment_image_ranged_noclip(self, image, transformation) ==
    LET image255 == transform_value_range(image, self.value_range, <<R(0), R(255)>>)
        planes   == unstack(image255)
        others   == SubSeq(planes, 1, Len(planes) - 1)
        blue     == plus(planes[Len(planes)], transformation)
        stacked  == stack(Append(others, blue))
    IN  transform_value_range(stacked, <<R(0), R(255)>>, self.value_range)

\* augment_image returning the [0, 255] image, the rescale back left out
augment_image_ranged_noback(self, image, transformation) ==
    LET image255 == transform_value_range(image, self.value_range, <<R(0), R(255)>>)
        planes   == unstack(image255)
        others   == SubSeq(planes, 1, Len(planes) - 1)
        blue     == clip_by_value(plus(planes[Len(planes)], transformation), R(0), R(255))
    IN  stack(Append(others, blue))

\* augment_image subtracting the shift instead of adding it
augment_image_ranged_minus(self, image, transformation) ==
    LET image255 == transform_value_range(image, self.value_range, <<R(0), R(255)>>)
        planes   == unstack(image255)
        others   == SubSeq(planes, 1, Len(planes) - 1)
        blue     == clip_by_value(plus(planes[Len(planes)], RSub(R(0), transformation)),
                                  R(0), R(255))
        stacked  == stack(Append(others, blue))
    IN  transform_value_range(stacked, <<R(0), R(255)>>, self.value_range)

\* augment_image shifting the image as given, the rescale to [0, 255] left out
augment_image_ranged_noin(self, image, transformation) ==
    LET planes   == unstack(image)
        others   == SubSeq(planes, 1, Len(planes) - 1)
        blue     == clip_by_value(plus(planes[Len(planes)], transformation), R(0), R(255))
        stacked  == stack(Append(others, blue))
    IN  transform_value_range(stacked, <<R(0), R(255)>>, self.value_range)

\* augment_image stacking blue first, the channel order changed
augment_image_ranged_bluefirst(self, image, transformation) ==
    LET image255 == transform_value_range(image, self.value_range, <<R(0), R(255)>>)
        planes   == unstack(image255)
        others   == SubSeq(planes, 1, Len(planes) - 1)
        blue     == clip_by_value(plus(planes[Len(planes)], transformation), R(0), R(255))
        stacked  == stack(<<blue>> \o others)
    IN  transform_value_range(stacked, <<R(0), R(255)>>, self.value_range)

\* RandomBlueTint.augment_image of the class with value_range
augment_image_ranged(self, image, transformation) ==
    LET image255 == transform_value_range(image, self.value_range, <<R(0), R(255)>>)
        planes   == unstack(image255)
        others   == SubSeq(planes, 1, Len(planes) - 1)
        blue     == clip_by_value(plus(planes[Len(planes)], transformation), R(0), R(255))
        stacked  == stack(Append(others, blue))
    IN  transform_value_range(stacked, <<R(0), R(255)>>, self.value_range)

\* method dispatch on the class of the layer
augment_image(self, image, transformation) ==
    IF self.value_range = NoRange
    THEN augment_image_plain(self, image, transformation)
    ELSE augment_image_ranged(self, image, transformation)

\* augment_label with the threshold included
augment_label_ge(self, label, transformation) ==
    IF RLe(R(100), transformation) THEN 2 ELSE label

\* RandomBlueTint.augment_label
augment_label(self, label, transformation) ==
    IF RLt(R(100), transformation) THEN 2 ELSE label

\* augment_bounding_boxes dropping the boxes above the threshold of augment_label
augment_bounding_boxes_dropped(self, bounding_boxes, transformation) ==
    IF RLt(R(100), transformation) THEN <<>> ELSE bounding_boxes

\* RandomBlueTint.augment_bounding_boxes
augment_bounding_boxes(self, bounding_boxes, transformation) == bounding_boxes

----------------------------------------------------------------------------
(* BaseImageAugmentationLayer: the call protocol the guide describes *)

\* _augment sampling a second transformation for the label
augment_sample_resampled(self, image, label, bounding_boxes, sample) ==
    LET transformation == get_random_transformation(self, sample)
        second == get_random_transformation(self, self.factor[2])
    IN  [image |-> augment_image(self, image, transformation),
         label |-> IF label = NoLabel THEN NoLabel
                   ELSE augment_label(self, label, second),
         bounding_boxes |-> IF bounding_boxes = NoBoxes THEN NoBoxes
                            ELSE augment_bounding_boxes(self, bounding_boxes, transformation),
         transformation |-> transformation]

\* _augment: one sample; the transformation is sampled once and handed to
\* augment_image, to augment_label and to augment_bounding_boxes
augment_sample(self, image, label, bounding_boxes, sample) ==
    LET transformation == get_random_transformation(self, sample)
    IN  [image |-> augment_image(self, image, transformation),
         label |-> IF label = NoLabel THEN NoLabel
                   ELSE augment_label(self, label, transformation),
         bounding_boxes |-> IF bounding_boxes = NoBoxes THEN NoBoxes
                            ELSE augment_bounding_boxes(self, bounding_boxes, transformation),
         transformation |-> transformation]

\* _batch_augment augmenting the first image of the batch for every sample
batch_augment_first(self, images, labels, bounding_boxes, samples) ==
    Tensor([i \in 1..Len(images) |->
        augment_sample(self, images[1],
                       IF labels = NoLabels THEN NoLabel ELSE labels[i],
                       IF bounding_boxes = NoBoxes THEN NoBoxes ELSE bounding_boxes[i],
                       samples[i])])

\* _batch_augment: _augment mapped over the samples of the batch, by
\* tf.vectorized_map when auto_vectorize is set and by tf.map_fn otherwise
batch_augment(self, images, labels, bounding_boxes, samples) ==
    IF self.auto_vectorize
    THEN Tensor([i \in 1..Len(images) |->
            augment_sample(self, images[i],
                           IF labels = NoLabels THEN NoLabel ELSE labels[i],
                           IF bounding_boxes = NoBoxes THEN NoBoxes ELSE bounding_boxes[i],
                           samples[i])])
    ELSE Tensor([i \in 1..Len(images) |->
            augment_sample(self, images[i],
                           IF labels = NoLabels THEN NoLabel ELSE labels[i],
                           IF bounding_boxes = NoBoxes THEN NoBoxes ELSE bounding_boxes[i],
                           samples[i])])

----------------------------------------------------------------------------
(* State machine *)

NoInputs == [rank |-> 0, images |-> <<>>, labels |-> NoLabels, bounding_boxes |-> NoBoxes]

Init ==
    /\ pc = "new"
    /\ layer = NoLayer
    /\ factor_arg = <<>>
    /\ inputs = NoInputs
    /\ transformations = <<>>
    /\ result = NoInputs

\* RandomBlueTint(value_range, factor): __init__ of the class with value_range;
\* auto_vectorize stays TRUE unless the constructor clears it as UnVectorizable does
ConstructRanged ==
    \E value_range \in ValueRanges, factor \in FactorArgs, auto_vectorize \in BOOLEAN :
        /\ pc = "new"
        /\ layer' = [value_range |-> value_range,
                     factor |-> parse_factor(factor),
                     auto_vectorize |-> auto_vectorize]
        /\ factor_arg' = factor
        /\ pc' = "built"
        /\ inputs' = NoInputs
        /\ transformations' = <<>>
        /\ result' = NoInputs

\* RandomBlueTint(factor): __init__ of the class without value_range
ConstructPlain ==
    \E factor \in FactorArgs, auto_vectorize \in BOOLEAN :
        /\ pc = "new"
        /\ layer' = [value_range |-> NoRange,
                     factor |-> parse_factor(factor),
                     auto_vectorize |-> auto_vectorize]
        /\ factor_arg' = factor
        /\ pc' = "built"
        /\ inputs' = NoInputs
        /\ transformations' = <<>>
        /\ result' = NoInputs

\* the ranges the images handed to the layer are expressed in
InputRanges(self) ==
    IF self.value_range = NoRange THEN {<<R(0), R(1)>>, <<R(0), R(255)>>}
    ELSE {self.value_range}

\* layer(inputs): inputs is an image (rank 3) or a batch of images (rank 4),
\* alone or in a dictionary with "labels", "bounding_boxes" or both.  A rank 3
\* input goes through _augment, a rank 4 input through _batch_augment.  Each
\* example cell of the guide builds a layer and calls it once.
Call ==
    /\ pc = "built"
    /\ \E rank \in {3, 4}, range \in InputRanges(layer),
          withLabels \in BOOLEAN, withBoxes \in BOOLEAN :
       \E n \in 1..(IF rank = 3 THEN 1 ELSE MaxBatch) :
       \E grid \in [1..n -> GridImages],
          labels \in IF withLabels THEN [1..n -> LabelValues] ELSE {NoLabels},
          bounding_boxes \in IF withBoxes THEN {BoxesOfBatch(n)} ELSE {NoBoxes},
          samples \in [1..n -> FactorSamples(layer.factor)] :
       \E images \in { Tensor([i \in 1..n |-> ImageOn(range, grid[i])]) } :
       \E out \in { IF rank = 3
                    THEN <<augment_sample(layer, images[1],
                             IF withLabels THEN labels[1] ELSE NoLabel,
                             IF withBoxes THEN bounding_boxes[1] ELSE NoBoxes,
                             samples[1])>>
                    ELSE batch_augment(layer, images, labels, bounding_boxes, samples) } :
          /\ inputs' = [rank |-> rank, images |-> images, labels |-> labels,
                        bounding_boxes |-> bounding_boxes]
          /\ transformations' = [i \in 1..n |-> out[i].transformation]
          /\ result' = [rank |-> rank,
                        images |-> [i \in 1..n |-> out[i].image],
                        labels |-> IF withLabels
                                   THEN [i \in 1..n |-> out[i].label]
                                   ELSE NoLabels,
                        bounding_boxes |-> IF withBoxes
                                           THEN [i \in 1..n |-> out[i].bounding_boxes]
                                           ELSE NoBoxes]
    /\ pc' = "called"
    /\ UNCHANGED <<layer, factor_arg>>

Next == ConstructRanged \/ ConstructPlain \/ Call

Spec == Init /\ [][Next]_vars

----------------------------------------------------------------------------
(* Vocabulary of the properties *)

Called == pc = "called"
Ranged == layer.value_range # NoRange
Samples == 1..Len(inputs.images)

\* the blue value of pixel p of an image
Blue(image, p) == image[p][Len(image[p])]

----------------------------------------------------------------------------
(* C1: with value_range, an image whose values all lie within value_range is
   augmented to an image whose values all lie within value_range, whatever
   transformation was sampled. *)
C1_OutputWithinValueRange ==
    (Called /\ Ranged) =>
        \A i \in Samples :
            InRange(inputs.images[i], layer.value_range)
                => InRange(result.images[i], layer.value_range)

\* value_range=(0, 1), factor=(0.1, 0.1): an in-range image with a pixel at the
\* top of the range, where only the clip keeps the output inside
C1_Witness ==
    /\ Called /\ Ranged
    /\ layer.value_range = <<R(0), R(1)>>
    /\ factor_arg = <<Rat(1, 10), Rat(1, 10)>>
    /\ \E i \in Samples :
          /\ InRange(inputs.images[i], layer.value_range)
          /\ \E p \in 1..Len(inputs.images[i]) : Blue(inputs.images[i], p) = R(1)
          /\ result.images[i] # inputs.images[i]

(* C2 as stated: when the sampled factor is 0 the output equals the input for
   every input image and every value_range. *)
C2_NoOpEveryImage ==
    (Called /\ Ranged) =>
        \A i \in Samples :
            transformations[i] = R(0) => result.images[i] = inputs.images[i]

(* C2 amended: when the sampled factor is 0 the output equals the input for
   every input image whose values lie within value_range. *)
C2_NoOpWithinValueRange ==
    (Called /\ Ranged) =>
        \A i \in Samples :
            (transformations[i] = R(0) /\ InRange(inputs.images[i], layer.value_range))
                => result.images[i] = inputs.images[i]

\* a zero shift applied to an in-range image of a range that needs rescaling
C2_Witness ==
    /\ Called /\ Ranged
    /\ layer.value_range = <<R(-1), R(1)>>
    /\ factor_arg = <<R(0)>>
    /\ \E i \in Samples :
          /\ transformations[i] = R(0)
          /\ InRange(inputs.images[i], layer.value_range)
          /\ result.images[i] = inputs.images[i]

(* C3 as stated: for a factor f in [0, 1] and an in-range image the output is
   (1 - f) * original + f * fully_blue, fully_blue being the output for
   factor 1.0. *)
C3_LinearInterpolation ==
    (Called /\ Ranged) =>
        \A i \in Samples :
            InRange(inputs.images[i], layer.value_range) =>
                LET x  == inputs.images[i]
                    f  == RDiv(transformations[i], R(255))
                    fb == augment_image(layer, x, R(255))
                IN  \A p \in 1..Len(x) : \A c \in 1..Len(x[p]) :
                        result.images[i][p][c]
                            = RAdd(RMul(RSub(R(1), f), x[p][c]), RMul(f, fb[p][c]))

(* C4: when the sampled factor is 1.0 (transformation 255) every output pixel
   of an in-range image has the upper bound of value_range as its blue value. *)
C4_FullFactorSaturatesBlue ==
    (Called /\ Ranged) =>
        \A i \in Samples :
            (transformations[i] = R(255) /\ InRange(inputs.images[i], layer.value_range))
                => \A p \in 1..Len(result.images[i]) :
                        Blue(result.images[i], p) = layer.value_range[2]

\* factor (1, 1) on an in-range image whose pixels have different blue values,
\* none of them at the top of the range
C4_Witness ==
    /\ Called /\ Ranged
    /\ \E i \in Samples :
          /\ transformations[i] = R(255)
          /\ InRange(inputs.images[i], layer.value_range)
          /\ Blue(inputs.images[i], 1) # Blue(inputs.images[i], 2)
          /\ \A p \in 1..Len(inputs.images[i]) :
                Blue(inputs.images[i], p) # layer.value_range[2]
          /\ \A p \in 1..Len(result.images[i]) :
                Blue(result.images[i], p) = layer.value_range[2]

(* C5: augment_label returns 2.0 when the transformation is greater than 100
   and the input label when it is 100 or less; a layer built with
   factor=(0.6, 0.6) always gives label 2.0. *)
C5_LabelThreshold ==
    (Called /\ inputs.labels # NoLabels) =>
        /\ \A i \in Samples :
              /\ RLt(R(100), transformations[i]) => result.labels[i] = 2
              /\ RLe(transformations[i], R(100)) => result.labels[i] = inputs.labels[i]
        /\ factor_arg = <<Rat(3, 5), Rat(3, 5)>>
              => \A i \in Samples : result.labels[i] = 2

\* a batch with one sample at exactly 100, its label kept, and one above 100,
\* its label remapped
C5_Witness ==
    /\ Called /\ inputs.labels # NoLabels
    /\ \E i, j \in Samples :
          /\ transformations[i] = R(100)
          /\ inputs.labels[i] = 1 /\ result.labels[i] = 1
          /\ RLt(R(100), transformations[j])
          /\ inputs.labels[j] = 1 /\ result.labels[j] = 2

(* C6: every transformation lies in [255 * lo, 255 * hi] for a factor tuple
   (lo, hi) and in [0, 255 * f] for a single float f; a tuple of two identical
   floats (a, a) gives 255 * a for every image. *)
C6_TransformationWithinFactorBounds ==
    Called =>
        \A i \in Samples :
            /\ Len(factor_arg) = 2 =>
                  /\ RLe(RMul(R(255), factor_arg[1]), transformations[i])
                  /\ RLe(transformations[i], RMul(R(255), factor_arg[2]))
            /\ Len(factor_arg) = 1 =>
                  /\ RLe(R(0), transformations[i])
                  /\ RLe(transformations[i], RMul(R(255), factor_arg[1]))
            /\ (Len(factor_arg) = 2 /\ factor_arg[1] = factor_arg[2])
                  => transformations[i] = RMul(R(255), factor_arg[1])

\* factor=0.5 with two images of one batch augmented differently
C6_Witness ==
    /\ Called
    /\ factor_arg = <<Rat(1, 2)>>
    /\ \E i, j \in Samples :
          /\ transformations[i] = R(0)
          /\ RLt(R(0), transformations[j])

(* C7: for value ranges R1 and R2, an image x within R1 and a transformation t,
   the layer configured with R2 applied to x rescaled from R1 to R2 gives the
   output of the layer configured with R1 rescaled from R1 to R2. *)
C7_RangeAgnostic ==
    (Called /\ Ranged) =>
        \A i \in Samples :
            InRange(inputs.images[i], layer.value_range) =>
                \A R2 \in ValueRanges :
                    augment_image([layer EXCEPT !.value_range = R2],
                                  transform_value_range(inputs.images[i],
                                                        layer.value_range, R2),
                                  transformations[i])
                        = transform_value_range(result.images[i], layer.value_range, R2)

\* a layer on [-1, 1] that changed an in-range image
C7_Witness ==
    /\ Called /\ Ranged
    /\ layer.value_range = <<R(-1), R(1)>>
    /\ \E i \in Samples :
          /\ InRange(inputs.images[i], layer.value_range)
          /\ RLt(R(0), transformations[i])
          /\ RLt(transformations[i], R(255))
          /\ result.images[i] # inputs.images[i]

(* C8: the class without value_range, built with factor=(0.1, 0.1) and called
   on an image with values in [0, 1], adds 25.5 to the blue value of every
   pixel, the clip never acting, and the output is not within [0, 1]. *)
C8_NoValueRangeLeavesUnitRange ==
    (Called /\ ~Ranged /\ factor_arg = <<Rat(1, 10), Rat(1, 10)>>) =>
        \A i \in Samples :
            InRange(inputs.images[i], <<R(0), R(1)>>) =>
                /\ \A p \in 1..Len(inputs.images[i]) :
                      Blue(result.images[i], p)
                          = RAdd(Blue(inputs.images[i], p), Rat(51, 2))
                /\ \E p \in 1..Len(result.images[i]) :
                      RLt(R(1), Blue(result.images[i], p))
                /\ ~InRange(result.images[i], <<R(0), R(1)>>)

\* such a call, on an image that reaches both ends of [0, 1]
C8_Witness ==
    /\ Called /\ ~Ranged
    /\ factor_arg = <<Rat(1, 10), Rat(1, 10)>>
    /\ \E i \in Samples :
          /\ InRange(inputs.images[i], <<R(0), R(1)>>)
          /\ \E p \in 1..Len(inputs.images[i]) : Blue(inputs.images[i], p) = R(1)
          /\ \E p \in 1..Len(inputs.images[i]) : inputs.images[i][p][1] = R(0)
          /\ ~InRange(result.images[i], <<R(0), R(1)>>)

(* C9: a call on a batch of N images returns N images, the i-th being
   augment_image of the i-th input with that image's transformation, for
   unbatched and batched inputs, with auto vectorization on or off. *)
C9_SampleWise ==
    Called =>
        /\ result.rank = inputs.rank
        /\ Len(result.images) = Len(inputs.images)
        /\ Len(transformations) = Len(inputs.images)
        /\ \A i \in Samples :
              result.images[i]
                  = augment_image(layer, inputs.images[i], transformations[i])

\* a batch of two different images with two different transformations, auto
\* vectorization off
C9_Witness ==
    /\ Called
    /\ inputs.rank = 4
    /\ ~layer.auto_vectorize
    /\ Len(inputs.images) = 2
    /\ inputs.images[1] # inputs.images[2]
    /\ transformations[1] # transformations[2]
    /\ result.images[1] # inputs.images[1]

(* C10: in a call on a dictionary input the transformation that shifted a
   sample's image is the one its label was augmented with: the label becomes
   2.0 exactly when that shift is greater than 100. *)
C10_SameTransformationForImageAndLabel ==
    (Called /\ inputs.labels # NoLabels) =>
        \A i \in Samples :
            /\ result.images[i]
                  = augment_image(layer, inputs.images[i], transformations[i])
            /\ result.labels[i] = 2 <=> RLt(R(100), transformations[i])

\* a dictionary batch in which one sample was shifted by 100 and kept its
\* label while another was shifted by more and got label 2.0
C10_Witness ==
    /\ Called /\ inputs.labels # NoLabels
    /\ inputs.rank = 4
    /\ \E i, j \in Samples :
          /\ transformations[i] = R(100) /\ result.labels[i] = inputs.labels[i]
          /\ RLt(R(100), transformations[j]) /\ result.labels[j] = 2
          /\ result.images[i] # inputs.images[i]
          /\ result.images[j] # inputs.images[j]

(* C11: augment_image changes only the last (blue) channel: for an input image
   within value_range and any transformation the output has the height, width
   and channels of the input, and every channel but the last is equal to the
   input's in every pixel.  The class without value_range does the same for
   every image. *)
C11_OnlyBlueChanges ==
    Called =>
        \A i \in Samples :
            (Ranged => InRange(inputs.images[i], layer.value_range)) =>
                LET x == inputs.images[i]
                    y == result.images[i]
                IN  /\ Len(y) = Len(x)
                    /\ \A p \in 1..Len(x) :
                          /\ Len(y[p]) = Len(x[p])
                          /\ \A c \in 1..(Len(x[p]) - 1) : y[p][c] = x[p][c]

\* a layer on [-1, 1] that changed the blue value of every pixel of an
\* in-range image whose other channels differ from each other
C11_Witness ==
    /\ Called /\ Ranged
    /\ layer.value_range = <<R(-1), R(1)>>
    /\ \E i \in Samples :
          /\ InRange(inputs.images[i], layer.value_range)
          /\ inputs.images[i][1][1] # inputs.images[i][1][2]
          /\ \A p \in 1..Len(inputs.images[i]) :
                /\ Blue(result.images[i], p) # Blue(inputs.images[i], p)
                /\ result.images[i][p][1] = inputs.images[i][p][1]
                /\ result.images[i][p][2] = inputs.images[i][p][2]

(* C12: augment_bounding_boxes returns exactly the bounding_boxes it was
   given, for every transformation, those greater than 100 that remap the
   plain labels included. *)
C12_BoundingBoxesUnchanged ==
    (Called /\ inputs.bounding_boxes # NoBoxes) =>
        /\ Len(result.bounding_boxes) = Len(inputs.bounding_boxes)
        /\ \A i \in Samples :
              result.bounding_boxes[i] = inputs.bounding_boxes[i]

\* a dictionary batch with labels and boxes in which a shift greater than 100
\* remapped a label and left the boxes of that sample as they were
C12_Witness ==
    /\ Called
    /\ inputs.bounding_boxes # NoBoxes /\ inputs.labels # NoLabels
    /\ Len(inputs.images) = 2
    /\ inputs.bounding_boxes[1] # inputs.bounding_boxes[2]
    /\ \E i \in Samples :
          /\ RLt(R(100), transformations[i])
          /\ inputs.labels[i] = 1 /\ result.labels[i] = 2
          /\ result.bounding_boxes[i] = inputs.bounding_boxes[i]

====
